---- MODULE Spec2Model ----
(***************************************************************************)
(* The library store of src/utils/db.ts: an IndexedDB database with the    *)
(* object stores bookFiles, bookMetadata and folders, and the exported     *)
(* operations on it.  Every exported operation is an async function: it    *)
(* awaits initDB() (an open request, served in FIFO order), then creates   *)
(* one transaction whose requests the engine runs in order and commits or  *)
(* rolls back as a whole; deleteFolder first awaits getAllBooks(), which   *)
(* opens again and reads in a transaction of its own.                      *)
(***************************************************************************)
EXTENDS Integers, Sequences, FiniteSets, TLC

VARIABLES
    dbVersion,     \* version of the database on disk (0: it does not exist)
    objectStores,  \* store name -> set of records (keyPath 'id'); DOMAIN = db.objectStoreNames
    metaIndexes,   \* names of the indexes of the bookMetadata store
    calls,         \* one library call per caller: operation, arguments, position, outcome
    openQueue,     \* pending indexedDB.open requests, oldest first
    txnQueue,      \* callers whose transaction is created and not finished, oldest first
    upgradeCount,  \* how many times onupgradeneeded has run
    oldConnection  \* another tab holds a connection of an older version open

vars == <<dbVersion, objectStores, metaIndexes, calls, openQueue, txnQueue, upgradeCount,
          oldConnection>>

---------------------------------------------------------------------------
(* Bounds *)

NumProcs == 2
MaxClock == 2

Procs == 1..NumProcs

\* The values Date.now() returns. It is the wall clock: two reads within a
\* millisecond return the same value.
Clock == 1..MaxClock

---------------------------------------------------------------------------
(* Program constants *)

DB_VERSION == 2
STORE_FILES == "bookFiles"
STORE_META == "bookMetadata"
STORE_FOLDERS == "folders"
StoreNames == {STORE_FILES, STORE_META, STORE_FOLDERS}

\* The JavaScript value undefined (a Book's folderId when it is in the root).
Undefined == "undefined"
\* A string argument or field a call does not use.
NoArg == "-"

---------------------------------------------------------------------------
(* Values *)

BookIds == {"b1", "b2"}
Variants == {"v1", "v2"}

\* Date.now().toString(): the decimal numeral of the clock value.
FolderIdOf(t) == ToString(t)
FolderIds == {FolderIdOf(t) : t \in Clock}
FolderIdArgs == FolderIds \cup {Undefined}
FolderNames == {"Math", "Art"}

\* A Book (types.ts): the variant fixes every field but id and folderId.
Book(id, v, f) ==
    [id |-> id,
     title |-> IF v = "v1" THEN "title1" ELSE "title2",
     uploadDate |-> IF v = "v1" THEN "date1" ELSE "date2",
     fileSize |-> IF v = "v1" THEN "1.0 MB" ELSE "2.0 MB",
     coverImage |-> IF v = "v1" THEN "cover1" ELSE "cover2",
     totalPages |-> IF v = "v1" THEN 1 ELSE 2,
     folderId |-> f]

\* The file uploaded together with a Book of variant v.
BlobOf(v) == IF v = "v1" THEN "pdf1" ELSE "pdf2"

\* A StoredBookFile (types.ts).
StoredBookFile(id, blob) == [id |-> id, fileData |-> blob]

\* A Folder (types.ts); createdAt is the ISO form of the clock value.
Folder(t, name) == [id |-> FolderIdOf(t), name |-> name, createdAt |-> t]

---------------------------------------------------------------------------
(* The object stores: request primitives of the engine *)

\* IDBObjectStore.put(value): insert or replace by value.id.
PutReq(store, rec) == [type |-> "put", store |-> store, key |-> rec.id, rec |-> {rec}]
\* IDBObjectStore.add(value): insert; fails when the key exists.
AddReq(store, rec) == [type |-> "add", store |-> store, key |-> rec.id, rec |-> {rec}]
\* IDBObjectStore.delete(key): remove; an absent key is no error.
DeleteReq(store, key) == [type |-> "delete", store |-> store, key |-> key, rec |-> {}]

\* IDBObjectStore.get(key): the record, or nothing.
Get(records, key) == {r \in records : r.id = key}

\* Mutant of the engine: a delete of a key that is not stored is an error.
RequestFailsOnMissing(stores, req) ==
    \/ req.type = "add" /\ Get(stores[req.store], req.key) # {}
    \/ req.type = "delete" /\ Get(stores[req.store], req.key) = {}

\* A request that ends with an error event by itself (ConstraintError).
RequestFails(stores, req) ==
    req.type = "add" /\ Get(stores[req.store], req.key) # {}

ApplyRequest(stores, req) ==
    [stores EXCEPT ![req.store] = {r \in @ : r.id # req.key} \cup req.rec]

\* The requests of one transaction, run in the order they were placed, up to
\* the first that fails.
RECURSIVE RunRequests(_, _)
RunRequests(stores, reqs) ==
    IF reqs = <<>> THEN [stores |-> stores, failed |-> FALSE]
    ELSE IF RequestFails(stores, Head(reqs)) THEN [stores |-> stores, failed |-> TRUE]
    ELSE RunRequests(ApplyRequest(stores, Head(reqs)), Tail(reqs))

\* A set of records as the array getAll() returns (in key order; the order is
\* of no consequence to what the puts of distinct keys leave behind).
RECURSIVE AsArray(_)
AsArray(records) ==
    IF records = {} THEN <<>>
    ELSE LET r == CHOOSE x \in records : TRUE
         IN <<r>> \o AsArray(records \ {r})

---------------------------------------------------------------------------
(* initDB: the upgrade handler *)

\* Mutant of the upgrade handler: the existence check is dropped.
StoreMissingAlways(db, name) == TRUE

\* !db.objectStoreNames.contains(name)
StoreMissing(db, name) == name \notin DOMAIN db.stores

\* db.createObjectStore(name, {keyPath: 'id'}): throws ConstraintError when a
\* store of that name exists.
CreateObjectStore(db, name) ==
    IF name \in DOMAIN db.stores
    THEN [db EXCEPT !.threw = TRUE]
    ELSE [db EXCEPT !.stores = [n \in DOMAIN db.stores \cup {name} |->
                                   IF n \in DOMAIN db.stores THEN db.stores[n] ELSE {}]]

\* metaStore.createIndex('folderId', 'folderId', {unique: false})
CreateFolderIdIndex(db) ==
    IF db.threw THEN db ELSE [db EXCEPT !.indexes = @ \cup {"folderId"}]

\* request.onupgradeneeded: the three guarded creations, in order; a throw
\* ends the handler.
OnUpgradeNeeded(db) ==
    LET d1 == IF StoreMissing(db, STORE_FILES) THEN CreateObjectStore(db, STORE_FILES) ELSE db
        d2 == IF d1.threw THEN d1
              ELSE IF StoreMissing(d1, STORE_META)
                   THEN CreateFolderIdIndex(CreateObjectStore(d1, STORE_META))
                   ELSE d1
        d3 == IF d2.threw THEN d2
              ELSE IF StoreMissing(d2, STORE_FOLDERS) THEN CreateObjectStore(d2, STORE_FOLDERS) ELSE d2
    IN d3

\* Mutant of initDB: every open asks for a version newer than the one on disk.
UpgradeAlways == TRUE

\* indexedDB.open(DB_NAME, DB_VERSION) runs the upgrade when the database on
\* disk is older than the requested version.
UpgradeNeeded == dbVersion < DB_VERSION

---------------------------------------------------------------------------
(* The read operations: what each resolves with, given the committed stores *)

\* getAllBooks: store.getAll() on bookMetadata
getAllBooks(stores) == stores[STORE_META]

\* getAllFolders: getAll() on folders
getAllFolders(stores) == stores[STORE_FOLDERS]

\* Mutant of getBookFile: the fileData of the result is read unguarded.
getBookFileUnguarded(stores, id) ==
    LET got == Get(stores[STORE_FILES], id)
    IN IF got # {} THEN (CHOOSE r \in got : TRUE).fileData ELSE Undefined

\* getBookFile: request.result ? request.result.fileData : null
getBookFile(stores, id) ==
    LET got == Get(stores[STORE_FILES], id)
    IN IF got # {} THEN (CHOOSE r \in got : TRUE).fileData ELSE "null"

---------------------------------------------------------------------------
(* The library operations: scope, mode and requests of each transaction *)

IdleCall ==
    [op |-> "none", pc |-> "idle", bookId |-> NoArg, book |-> {}, file |-> NoArg,
     folderId |-> NoArg, name |-> NoArg, books |-> {}, newFolder |-> {},
     result |-> {}, error |-> "none"]

TheBook(c) == CHOOSE b \in c.book : TRUE
TheFolder(c) == CHOOSE f \in c.newFolder : TRUE

\* db.transaction(scope, mode) of each operation.
Scope(c) ==
    CASE c.op = "saveBook" -> {STORE_FILES, STORE_META}
      [] c.op = "updateBookFolder" -> {STORE_META}
      [] c.op = "deleteBook" -> {STORE_FILES, STORE_META}
      [] c.op = "createFolder" -> {STORE_FOLDERS}
      [] c.op = "getAllBooks" -> {STORE_META}
      [] c.op = "getBookFile" -> {STORE_FILES}
      [] c.op = "getAllFolders" -> {STORE_FOLDERS}
      [] c.op = "deleteFolder" ->
            IF c.pc \in {"open2", "read", "books"} THEN {STORE_META}
            ELSE {STORE_FOLDERS, STORE_META}
      [] OTHER -> {}

ReadOps == {"getAllBooks", "getBookFile", "getAllFolders"}

Mode(c) ==
    IF c.op \in ReadOps \/ (c.op = "deleteFolder" /\ c.pc \in {"open2", "read", "books"})
    THEN "readonly" ELSE "readwrite"

\* Mutant of saveBook: the put of the file is forgotten.
saveBookRequestsNoFile(c) == <<PutReq(STORE_META, TheBook(c))>>

\* Mutant of saveBook: the Book is stored without its folder.
saveBookRequestsInRoot(c) ==
    <<PutReq(STORE_FILES, StoredBookFile(TheBook(c).id, c.file)),
      PutReq(STORE_META, [TheBook(c) EXCEPT !.folderId = Undefined])>>

\* Mutant of saveBook: the file of another Book is removed by the way.
saveBookRequestsDropsOther(c) ==
    <<PutReq(STORE_FILES, StoredBookFile(TheBook(c).id, c.file)),
      PutReq(STORE_META, TheBook(c)),
      DeleteReq(STORE_FILES, CHOOSE id \in BookIds : id # TheBook(c).id)>>

\* saveBook: filesStore.put({id: book.id, fileData: file}); metaStore.put(book)
saveBookRequests(c) ==
    <<PutReq(STORE_FILES, StoredBookFile(TheBook(c).id, c.file)),
      PutReq(STORE_META, TheBook(c))>>

\* Mutant of updateBookFolder: a missing book is created instead of skipped.
updateBookFolderRequestsUpsert(c, stores) ==
    LET got == Get(stores[STORE_META], c.bookId)
        book == IF got # {} THEN CHOOSE b \in got : TRUE ELSE Book(c.bookId, "v1", Undefined)
    IN <<PutReq(STORE_META, [book EXCEPT !.folderId = c.folderId])>>

\* Mutant of updateBookFolder: a Book that is in a folder stays there.
updateBookFolderRequestsKeepFirst(c, stores) ==
    LET got == Get(stores[STORE_META], c.bookId)
    IN IF got # {} /\ (CHOOSE b \in got : TRUE).folderId = Undefined
       THEN <<PutReq(STORE_META, [(CHOOSE b \in got : TRUE) EXCEPT !.folderId = c.folderId])>>
       ELSE <<>>

\* Mutant of updateBookFolder: a new record is written in place of the stored
\* one.
updateBookFolderRequestsRebuilt(c, stores) ==
    IF Get(stores[STORE_META], c.bookId) # {}
    THEN <<PutReq(STORE_META, Book(c.bookId, "v1", c.folderId))>>
    ELSE <<>>

\* Mutant of updateBookFolder: the record written back carries the title
\* of the first upload, not the one the transaction has read.
updateBookFolderRequestsStale(c, stores) ==
    LET got == Get(stores[STORE_META], c.bookId)
    IN IF got # {}
       THEN <<PutReq(STORE_META,
                     [(CHOOSE b \in got : TRUE) EXCEPT
                         !.folderId = c.folderId,
                         !.title = Book(c.bookId, "v1", Undefined).title])>>
       ELSE <<>>

\* updateBookFolder: store.get(bookId), and in its onsuccess, if the book is
\* there, book.folderId = folderId; store.put(book)
updateBookFolderRequests(c, stores) ==
    LET got == Get(stores[STORE_META], c.bookId)
    IN IF got # {}
       THEN <<PutReq(STORE_META, [(CHOOSE b \in got : TRUE) EXCEPT !.folderId = c.folderId])>>
       ELSE <<>>

\* Mutant of deleteBook: the metadata record is left behind.
deleteBookRequestsFileOnly(c) == <<DeleteReq(STORE_FILES, c.bookId)>>

\* Mutant of deleteBook: the file is left behind.
deleteBookRequestsMetaOnly(c) == <<DeleteReq(STORE_META, c.bookId)>>

\* deleteBook: delete(id) on both stores
deleteBookRequests(c) ==
    <<DeleteReq(STORE_FILES, c.bookId), DeleteReq(STORE_META, c.bookId)>>

\* Mutant of createFolder: the record is stored without its name.
createFolderRequestsUnnamed(c) ==
    <<AddReq(STORE_FOLDERS, [TheFolder(c) EXCEPT !.name = NoArg])>>

\* Mutant of createFolder: the record is stored with put.
createFolderRequestsPut(c) == <<PutReq(STORE_FOLDERS, TheFolder(c))>>

\* createFolder: add(newFolder)
createFolderRequests(c) == <<AddReq(STORE_FOLDERS, TheFolder(c))>>

\* Mutant of deleteFolder: the filter keeps every book.
booksInFolderAll(books, folderId) == books

\* deleteFolder: books.filter(b => b.folderId === folderId)
booksInFolder(books, folderId) == {b \in books : b.folderId = folderId}

\* Mutant of deleteFolder: the books of the folder are deleted with it.
RECURSIVE MoveToRootCascade(_)
MoveToRootCascade(bookArray) ==
    IF bookArray = <<>> THEN <<>>
    ELSE <<DeleteReq(STORE_META, Head(bookArray).id)>> \o MoveToRootCascade(Tail(bookArray))

\* deleteFolder: for each book of booksInFolder, book.folderId = undefined;
\* metaStore.put(book); then delete(folderId) on the folders store
RECURSIVE MoveToRoot(_)
MoveToRoot(bookArray) ==
    IF bookArray = <<>> THEN <<>>
    ELSE <<PutReq(STORE_META, [Head(bookArray) EXCEPT !.folderId = Undefined])>>
         \o MoveToRoot(Tail(bookArray))

deleteFolderRequests(c) ==
    MoveToRoot(AsArray(c.books)) \o <<DeleteReq(STORE_FOLDERS, c.folderId)>>

Requests(c, stores) ==
    CASE c.op = "saveBook" -> saveBookRequests(c)
      [] c.op = "updateBookFolder" -> updateBookFolderRequests(c, stores)
      [] c.op = "deleteBook" -> deleteBookRequests(c)
      [] c.op = "createFolder" -> createFolderRequests(c)
      [] c.op = "deleteFolder" -> deleteFolderRequests(c)
      [] OTHER -> <<>>

\* What the promise of a call resolves with when its transaction is run on
\* stores: the result of its read request, newFolder, or nothing (void).
Result(c, stores) ==
    CASE c.op = "getAllBooks" -> getAllBooks(stores)
      [] c.op = "getBookFile" -> {getBookFile(stores, c.bookId)}
      [] c.op = "getAllFolders" -> getAllFolders(stores)
      [] c.op = "createFolder" -> c.newFolder
      [] OTHER -> {}

---------------------------------------------------------------------------
(* The database a page load finds *)

NoStores == [n \in {} |-> {}]

\* A library as an earlier session leaves it through the user interface:
\* every Book with its file, in the root or in a folder of the library, and
\* folders created at earlier clock values.
Libraries ==
    {l \in {[bookFiles |-> {StoredBookFile(b.id, BlobOf("v1")) : b \in books},
             bookMetadata |-> books,
             folders |-> {Folder(t, "Math") : t \in ts}] :
               books \in {bs \in SUBSET {Book(id, "v1", f) : id \in BookIds, f \in FolderIdArgs} :
                             \A x, y \in bs : x.id = y.id => x = y},
               ts \in SUBSET Clock} :
        \A b \in l.bookMetadata :
           b.folderId = Undefined \/ \E f \in l.folders : f.id = b.folderId}

\* What version 1 left: the two book stores, no folders store, no Book with a
\* folderId, no index.
LibrariesV1 ==
    {[n \in {STORE_FILES, STORE_META} |-> l[n]] :
        l \in {x \in Libraries : x.folders = {} /\ \A b \in x.bookMetadata : b.folderId = Undefined}}

\* A tab of an older release can hold a connection only to a database that
\* exists at a version older than DB_VERSION.
OtherTabs(version) == IF 0 < version /\ version < DB_VERSION THEN BOOLEAN ELSE {FALSE}

Init ==
    /\ \/ dbVersion = 0 /\ objectStores = NoStores /\ metaIndexes = {}
       \/ dbVersion = 1 /\ objectStores \in LibrariesV1 /\ metaIndexes = {}
       \/ dbVersion = DB_VERSION /\ objectStores \in Libraries /\ metaIndexes = {"folderId"}
    /\ oldConnection \in OtherTabs(dbVersion)
    /\ calls = [p \in Procs |-> IdleCall]
    /\ openQueue = <<>>
    /\ txnQueue = <<>>
    /\ upgradeCount = 0

---------------------------------------------------------------------------
(* A caller invokes an exported operation: const db = await initDB() *)

Invoke(p, c) ==
    /\ calls[p].pc = "idle"
    /\ calls' = [calls EXCEPT ![p] = [c EXCEPT !.pc = "open"]]
    /\ openQueue' = Append(openQueue, p)
    /\ UNCHANGED <<oldConnection, dbVersion, objectStores, metaIndexes, txnQueue, upgradeCount>>

CallSaveBook(p) ==
    \E id \in BookIds, v \in Variants, f \in FolderIdArgs :
        Invoke(p, [IdleCall EXCEPT !.op = "saveBook", !.book = {Book(id, v, f)},
                                   !.bookId = id, !.file = BlobOf(v)])

CallUpdateBookFolder(p) ==
    \E id \in BookIds, f \in FolderIdArgs :
        Invoke(p, [IdleCall EXCEPT !.op = "updateBookFolder", !.bookId = id, !.folderId = f])

CallDeleteBook(p) ==
    \E id \in BookIds :
        Invoke(p, [IdleCall EXCEPT !.op = "deleteBook", !.bookId = id])

CallCreateFolder(p) ==
    \E name \in FolderNames :
        Invoke(p, [IdleCall EXCEPT !.op = "createFolder", !.name = name])

CallDeleteFolder(p) ==
    \E f \in FolderIds :
        Invoke(p, [IdleCall EXCEPT !.op = "deleteFolder", !.folderId = f])

CallGetAllBooks(p) == Invoke(p, [IdleCall EXCEPT !.op = "getAllBooks"])

CallGetBookFile(p) ==
    \E id \in BookIds :
        Invoke(p, [IdleCall EXCEPT !.op = "getBookFile", !.bookId = id])

CallGetAllFolders(p) == Invoke(p, [IdleCall EXCEPT !.op = "getAllFolders"])

---------------------------------------------------------------------------
(* initDB: the open request is served *)

\* Mutant of the operations: the error is wrapped before it is passed on.
RejectedWrapped(c, error) ==
    [IdleCall EXCEPT !.op = c.op, !.pc = "rejected", !.error = "LibraryUnavailable"]

\* The promise is rejected; the arguments of the call are dead from here on.
Rejected(c, error) == [IdleCall EXCEPT !.op = c.op, !.pc = "rejected", !.error = error]

\* The code after the await of initDB, given the stores the handle sees.
\* deleteFolder goes on to getAllBooks(), which opens again; createFolder
\* builds newFolder from Date.now(); every other operation creates its
\* transaction, and db.transaction throws NotFoundError for a missing store.
AfterOpen(p, stores, now) ==
    LET c == calls[p] IN
    IF c.op = "deleteFolder" /\ c.pc = "open"
    THEN /\ calls' = [calls EXCEPT ![p].pc = "open2"]
         /\ openQueue' = Append(Tail(openQueue), p)
         /\ UNCHANGED txnQueue
    ELSE IF ~(Scope(c) \subseteq DOMAIN stores)
    THEN /\ calls' = [calls EXCEPT ![p] = Rejected(c, "NotFoundError")]
         /\ openQueue' = Tail(openQueue)
         /\ UNCHANGED txnQueue
    ELSE /\ calls' = [calls EXCEPT ![p] =
                [c EXCEPT !.pc = IF c.pc = "open2" THEN "read" ELSE "txn",
                          !.newFolder = IF c.op = "createFolder"
                                        THEN {Folder(now, c.name)} ELSE {}]]
         /\ openQueue' = Tail(openQueue)
         /\ txnQueue' = Append(txnQueue, p)

\* request.onerror: the storage is unavailable.
OpenError(p) ==
    /\ openQueue # <<>> /\ Head(openQueue) = p
    /\ calls' = [calls EXCEPT ![p] = Rejected(calls[p], "UnknownError")]
    /\ openQueue' = Tail(openQueue)
    /\ UNCHANGED <<oldConnection, dbVersion, objectStores, metaIndexes, txnQueue, upgradeCount>>

\* request.onupgradeneeded, then request.onsuccess; a throw in the handler
\* aborts the upgrade and the request ends with onerror (AbortError). While
\* a connection of an older version is open the upgrade cannot start: the
\* request gets a blocked event, which initDB does not listen to, and waits.
OpenUpgrade(p) ==
    /\ openQueue # <<>> /\ Head(openQueue) = p
    /\ UpgradeNeeded
    /\ ~oldConnection
    /\ upgradeCount' = upgradeCount + 1
    /\ LET db == OnUpgradeNeeded([stores |-> objectStores, indexes |-> metaIndexes,
                                  threw |-> FALSE])
       IN IF db.threw
          THEN /\ calls' = [calls EXCEPT ![p] = Rejected(calls[p], "AbortError")]
               /\ openQueue' = Tail(openQueue)
               /\ UNCHANGED <<oldConnection, dbVersion, objectStores, metaIndexes, txnQueue>>
          ELSE /\ UNCHANGED oldConnection
               /\ dbVersion' = DB_VERSION
               /\ objectStores' = db.stores
               /\ metaIndexes' = db.indexes
               /\ \E now \in Clock : AfterOpen(p, db.stores, now)

\* request.onsuccess on a database already at DB_VERSION.
OpenSuccess(p) ==
    /\ openQueue # <<>> /\ Head(openQueue) = p
    /\ ~UpgradeNeeded
    /\ \E now \in Clock : AfterOpen(p, objectStores, now)
    /\ UNCHANGED <<oldConnection, dbVersion, objectStores, metaIndexes, upgradeCount>>

---------------------------------------------------------------------------
(* The engine runs a transaction *)

Before(q, p) ==
    \E i, j \in 1..Len(txnQueue) : i < j /\ txnQueue[i] = q /\ txnQueue[j] = p

\* A transaction starts when no transaction created before it, with an
\* overlapping scope, is unfinished, unless both only read.
CanRun(p) ==
    /\ \E i \in 1..Len(txnQueue) : txnQueue[i] = p
    /\ \A q \in Procs :
          Before(q, p) =>
             \/ Scope(calls[q]) \cap Scope(calls[p]) = {}
             \/ Mode(calls[q]) = "readonly" /\ Mode(calls[p]) = "readonly"

Dequeue(p) == SelectSeq(txnQueue, LAMBDA q : q # p)

\* getAllBooks inside deleteFolder: the engine runs store.getAll(). Its
\* success event is a task of its own: until it is delivered the read-only
\* transaction is unfinished, and other callers' code may run.
ReadBooks(p) ==
    /\ calls[p].pc = "read"
    /\ CanRun(p)
    /\ calls' = [calls EXCEPT ![p] = [@ EXCEPT !.pc = "books",
                                               !.books = getAllBooks(objectStores)]]
    /\ UNCHANGED <<oldConnection, dbVersion, objectStores, metaIndexes, openQueue, txnQueue, upgradeCount>>

\* getAllBooks inside deleteFolder: request.onsuccess resolves with the
\* books read; deleteFolder filters them and creates its read-write
\* transaction with the puts and the delete.
FilterBooks(p) ==
    /\ calls[p].pc = "books"
    /\ calls' = [calls EXCEPT ![p] =
            [@ EXCEPT !.pc = "txn",
                      !.books = booksInFolder(calls[p].books, calls[p].folderId)]]
    /\ txnQueue' = Append(Dequeue(p), p)
    /\ UNCHANGED <<oldConnection, dbVersion, objectStores, metaIndexes, openQueue, upgradeCount>>

\* getAllBooks inside deleteFolder: request.onerror.
ReadError(p) ==
    /\ calls[p].pc = "read"
    /\ CanRun(p)
    /\ calls' = [calls EXCEPT ![p] = Rejected(calls[p], "ReadError")]
    /\ txnQueue' = Dequeue(p)
    /\ UNCHANGED <<oldConnection, dbVersion, objectStores, metaIndexes, openQueue, upgradeCount>>

\* transaction.oncomplete: every request succeeded and the transaction
\* committed. For getAllBooks, getBookFile and getAllFolders it is the
\* onsuccess of the one read request, which resolves with its result.
Commit(p) ==
    /\ calls[p].pc = "txn"
    /\ CanRun(p)
    /\ LET run == RunRequests(objectStores, Requests(calls[p], objectStores))
       IN /\ ~run.failed
          /\ objectStores' = run.stores
    /\ calls' = [calls EXCEPT ![p] = [@ EXCEPT !.pc = "resolved",
                                               !.result = Result(calls[p], objectStores)]]
    /\ txnQueue' = Dequeue(p)
    /\ UNCHANGED <<oldConnection, dbVersion, metaIndexes, openQueue, upgradeCount>>

\* Mutant of the engine: an aborted transaction keeps what its requests
\* wrote before the failure.
AbortKeepsWrites(before, written) == written

\* A transaction that is aborted leaves the stores as they were before it.
Abort(before, written) == before

\* transaction.onerror (request.onerror for a read): a request failed, by
\* itself (add of an existing key) or by a fault of the storage after the
\* first k requests were done; the transaction is rolled back.
RequestError(p) ==
    /\ calls[p].pc = "txn"
    /\ CanRun(p)
    /\ LET reqs == Requests(calls[p], objectStores)
           run == RunRequests(objectStores, reqs)
       IN IF run.failed
          THEN /\ calls' = [calls EXCEPT ![p] = Rejected(calls[p], "ConstraintError")]
               /\ objectStores' = Abort(objectStores, run.stores)
          ELSE /\ calls' = [calls EXCEPT ![p] = Rejected(calls[p], "RequestError")]
               /\ \E k \in 0..Len(reqs) :
                     /\ k < Len(reqs) \/ k = 0
                     /\ objectStores' =
                           Abort(objectStores, RunRequests(objectStores, SubSeq(reqs, 1, k)).stores)
    /\ txnQueue' = Dequeue(p)
    /\ UNCHANGED <<oldConnection, dbVersion, metaIndexes, openQueue, upgradeCount>>

\* The transaction aborts with no request in error (a failure at commit):
\* only onabort fires, which no operation listens to. A read-only
\* transaction has nothing to commit.
CommitAbort(p) ==
    /\ calls[p].pc = "txn"
    /\ Mode(calls[p]) = "readwrite"
    /\ CanRun(p)
    /\ ~RunRequests(objectStores, Requests(calls[p], objectStores)).failed
    /\ calls' = [calls EXCEPT ![p] = [IdleCall EXCEPT !.op = calls[p].op, !.pc = "pending"]]
    /\ txnQueue' = Dequeue(p)
    /\ UNCHANGED <<oldConnection, dbVersion, objectStores, metaIndexes, openQueue, upgradeCount>>

\* The other tab is closed, and its connection with it.
CloseOldConnection ==
    /\ oldConnection
    /\ oldConnection' = FALSE
    /\ UNCHANGED <<dbVersion, objectStores, metaIndexes, calls, openQueue, txnQueue, upgradeCount>>

Next ==
    \/ CloseOldConnection
    \/ \E p \in Procs :
          \/ CallSaveBook(p)
          \/ CallUpdateBookFolder(p)
          \/ CallDeleteBook(p)
          \/ CallCreateFolder(p)
          \/ CallDeleteFolder(p)
          \/ CallGetAllBooks(p)
          \/ CallGetBookFile(p)
          \/ CallGetAllFolders(p)
          \/ OpenError(p)
          \/ OpenUpgrade(p)
          \/ OpenSuccess(p)
          \/ ReadBooks(p)
          \/ FilterBooks(p)
          \/ ReadError(p)
          \/ Commit(p)
          \/ RequestError(p)
          \/ CommitAbort(p)

Spec == Init /\ [][Next]_vars

\* Any database an older release can have left: at version 1, any of the
\* three stores, each empty or with a record.
OldRecords(n) ==
    CASE n = STORE_FILES -> {StoredBookFile("b1", BlobOf("v1"))}
      [] n = STORE_META -> {Book("b1", "v1", Undefined)}
      [] n = STORE_FOLDERS -> {Folder(1, "Math")}

OldDatabases ==
    UNION {[S -> {{}} \cup {OldRecords(n) : n \in S}] : S \in SUBSET StoreNames}

InitUpgrade ==
    /\ \/ dbVersion = 0 /\ objectStores = NoStores
       \/ dbVersion = 1
          /\ objectStores \in {db \in OldDatabases : \A n \in DOMAIN db : db[n] \subseteq OldRecords(n)}
    /\ metaIndexes = {}
    /\ oldConnection \in OtherTabs(dbVersion)
    /\ calls = [p \in Procs |-> IdleCall]
    /\ openQueue = <<>>
    /\ txnQueue = <<>>
    /\ upgradeCount = 0

SpecUpgrade == InitUpgrade /\ [][Next]_vars

---------------------------------------------------------------------------
(* Vocabulary of the properties *)

Ids(records) == {r.id : r \in records}

\* The step in which the transaction of p's call commits and its promise
\* resolves.
Resolves(p, op) ==
    calls[p].op = op /\ calls[p].pc = "txn" /\ calls'[p].pc = "resolved"

\* The step in which p's call fails, or is left pending for good.
Fails(p, op) ==
    /\ calls[p].op = op
    /\ calls[p].pc \notin {"idle", "rejected", "pending"}
    /\ calls'[p].pc \in {"rejected", "pending"}

\* No other caller has called anything since the page was loaded.
Alone(p) == \A q \in Procs \ {p} : calls[q].pc = "idle"

Resolved(p, op) == calls[p].op = op /\ calls[p].pc = "resolved"

---------------------------------------------------------------------------
(* Properties *)

\* C1: whatever runs beside it, when deleteFolder(F) of a folder F of the
\* library resolves, no Book of the metadata store has folderId = F.
C1_NoBookLeftInDeletedFolder ==
    [][\A p \in Procs :
          /\ Resolves(p, "deleteFolder")
          /\ calls[p].folderId \in Ids(getAllFolders(objectStores))
          =>
             \A b \in getAllBooks(objectStores') : b.folderId # calls[p].folderId]_vars

\* C2: a deleteFolder(F) that runs alone removes F from the folders, leaves every
\* Book that was in F in the root, and neither loses nor adds a Book.
C2_CascadeIntegrity ==
    [][\A p \in Procs :
          Resolves(p, "deleteFolder") /\ Alone(p) =>
             /\ calls[p].folderId \notin Ids(getAllFolders(objectStores'))
             /\ \A b \in getAllBooks(objectStores) :
                   b.folderId = calls[p].folderId =>
                      \E a \in getAllBooks(objectStores') :
                         a.id = b.id /\ a.folderId = Undefined
             /\ Ids(getAllBooks(objectStores')) = Ids(getAllBooks(objectStores))]_vars

\* C2 witness: a deleteFolder has resolved alone, the folder is gone and two
\* Books are in the root.
C2_Witness ==
    \E p \in Procs :
       /\ Resolved(p, "deleteFolder") /\ Alone(p)
       /\ calls[p].books = {Book(id, "v1", calls[p].folderId) : id \in BookIds}
       /\ getAllBooks(objectStores) = {Book(id, "v1", Undefined) : id \in BookIds}

\* C3: the binary store and the metadata store always hold the same ids.
C3_FilesMatchMetadata ==
    {STORE_FILES, STORE_META} \subseteq DOMAIN objectStores =>
        Ids(objectStores[STORE_FILES]) = Ids(objectStores[STORE_META])

\* A transaction of p's call is waiting and none of its requests fails by
\* itself.
NoRequestFails(p) ==
    ~RunRequests(objectStores, Requests(calls[p], objectStores)).failed

\* C4: when saveBook resolves, the file and the metadata record of the Book are
\* both stored; when it fails, the stores are as they were before the step.
C4_AtomicSave ==
    [][\A p \in Procs :
          /\ Resolves(p, "saveBook") =>
                /\ getBookFile(objectStores', calls[p].bookId) # "null"
                /\ Get(getAllBooks(objectStores'), calls[p].bookId) # {}
          /\ Fails(p, "saveBook") => objectStores' = objectStores]_vars

\* C4 witness: one saveBook has resolved with both records stored, another
\* has been rejected by a failed request.
C4_Witness ==
    \E p, q \in Procs :
       /\ Resolved(p, "saveBook")
       /\ getBookFile(objectStores, calls[p].bookId) # "null"
       /\ Get(getAllBooks(objectStores), calls[p].bookId) # {}
       /\ calls[q].op = "saveBook" /\ calls[q].pc = "rejected"
       /\ calls[q].error = "RequestError"

\* C5: when saveBook(d, b) resolves, getAllBooks() holds a record equal to d
\* in every field and getBookFile(d.id) is b; and so it stays while no other
\* call is made.
C5_RoundTrip ==
    /\ [][\A p \in Procs :
             Resolves(p, "saveBook") =>
                /\ TheBook(calls[p]) \in getAllBooks(objectStores')
                /\ getBookFile(objectStores', calls[p].bookId) = calls[p].file]_vars
    /\ [](\A p \in Procs :
             Resolved(p, "saveBook") /\ Alone(p) =>
                /\ TheBook(calls[p]) \in getAllBooks(objectStores)
                /\ getBookFile(objectStores, calls[p].bookId) = calls[p].file)

\* C5 witness: a saveBook of a Book in a folder, with the second file, has
\* resolved over an older record of the same id.
C5_Witness ==
    \E p \in Procs :
       /\ Resolved(p, "saveBook") /\ Alone(p)
       /\ TheBook(calls[p]) = Book("b1", "v2", FolderIdOf(1))
       /\ getBookFile(objectStores, "b1") = "pdf2"

\* C6: when deleteBook(id) resolves, neither store holds a record of id; on an
\* id that no store holds it changes nothing; and its deletes never fail by
\* themselves.
C6_IdempotentDelete ==
    /\ [][\A p \in Procs :
             Resolves(p, "deleteBook") =>
                /\ Get(objectStores'[STORE_FILES], calls[p].bookId) = {}
                /\ Get(objectStores'[STORE_META], calls[p].bookId) = {}
                /\ (/\ Get(objectStores[STORE_FILES], calls[p].bookId) = {}
                    /\ Get(objectStores[STORE_META], calls[p].bookId) = {})
                   => objectStores' = objectStores]_vars
    /\ [](\A p \in Procs :
             calls[p].op = "deleteBook" /\ calls[p].pc = "txn" => NoRequestFails(p))

\* C6 witness: two deleteBook calls of the same id have resolved.
C6_Witness ==
    /\ \A p \in Procs : Resolved(p, "deleteBook") /\ calls[p].bookId = "b1"
    /\ "b1" \notin Ids(objectStores[STORE_FILES]) \cup Ids(objectStores[STORE_META])

\* C7: updateBookFolder on an id the metadata store does not hold resolves
\* and changes no store, whatever the folderId.
C7_ReassignMissingIsNoOp ==
    /\ [][\A p \in Procs :
             /\ Resolves(p, "updateBookFolder")
             /\ Get(getAllBooks(objectStores), calls[p].bookId) = {}
             => objectStores' = objectStores]_vars
    /\ [](\A p \in Procs :
             calls[p].op = "updateBookFolder" /\ calls[p].pc = "txn" => NoRequestFails(p))

\* C7 witness: an updateBookFolder to the root, of a book that is not stored,
\* has resolved.
C7_Witness ==
    \E p \in Procs :
       /\ Resolved(p, "updateBookFolder") /\ Alone(p)
       /\ calls[p].folderId = Undefined
       /\ calls[p].bookId \notin Ids(getAllBooks(objectStores))

\* The step in which the open request of p is served.
OpenServed(p) ==
    /\ openQueue # <<>> /\ Head(openQueue) = p
    /\ calls'[p] # calls[p]

PastOpen(p) == calls[p].pc \in {"open2", "read", "books", "txn", "resolved"}

\* C8: an upgrade never throws, and the step that brings the database to
\* DB_VERSION leaves every record of every store that existed as it was and
\* creates, empty, exactly the stores that were missing.
C8_UpgradeSafety ==
    /\ [][dbVersion < DB_VERSION /\ (\E p \in Procs : OpenServed(p) /\ calls'[p].error # "UnknownError")
          => /\ dbVersion' = DB_VERSION
             /\ DOMAIN objectStores' = StoreNames
             /\ \A n \in DOMAIN objectStores : objectStores'[n] = objectStores[n]
             /\ \A n \in StoreNames \ DOMAIN objectStores : objectStores'[n] = {}]_vars
    /\ [](\A p \in Procs : calls[p].error \notin {"AbortError", "NotFoundError"})

\* C8 witness: the database of version 1, with a book and no folders store,
\* has been upgraded; nothing has been committed since.
C8_Witness ==
    /\ upgradeCount = 1 /\ dbVersion = DB_VERSION
    /\ \A p \in Procs : calls[p].pc # "resolved"
    /\ objectStores = [bookFiles |-> {StoredBookFile("b1", BlobOf("v1"))},
                       bookMetadata |-> {Book("b1", "v1", Undefined)},
                       folders |-> {}]

\* C9: a database at DB_VERSION has the folderId index on its metadata store.
C9_FolderIdIndexAfterOpen ==
    dbVersion = DB_VERSION => "folderId" \in metaIndexes

\* C10: however many opens are queued, the upgrade handler runs at most once,
\* no open fails but for the storage, an open that is served finds the
\* database at DB_VERSION with the three stores, and serving an open changes
\* no record.
C10_ConcurrentOpens ==
    /\ [](/\ upgradeCount <= 1
          /\ \A p \in Procs :
                /\ calls[p].error \notin {"AbortError", "NotFoundError"}
                /\ PastOpen(p) => dbVersion = DB_VERSION /\ DOMAIN objectStores = StoreNames)
    /\ [][\A p \in Procs :
             OpenServed(p) => \A n \in DOMAIN objectStores : objectStores'[n] = objectStores[n]]_vars

\* C10 witness: on a database that did not exist, every caller's open has
\* been served, after one upgrade.
C10_Witness ==
    /\ upgradeCount = 1
    /\ Len(txnQueue) = NumProcs
    /\ \A p \in Procs : calls[p].pc = "txn"
    /\ \A n \in StoreNames : objectStores[n] = {}

---------------------------------------------------------------------------
(* A page load that finds a tab of the older release still open *)

InitBlocked ==
    /\ dbVersion = 1 /\ objectStores \in LibrariesV1 /\ metaIndexes = {}
    /\ oldConnection = TRUE
    /\ calls = [p \in Procs |-> IdleCall]
    /\ openQueue = <<>>
    /\ txnQueue = <<>>
    /\ upgradeCount = 0

\* The engine serves an open request that can be served. Nothing makes the
\* other tab close, and a fault of the storage need not happen.
OpenFairness == WF_vars(\E p \in Procs : OpenUpgrade(p) \/ OpenSuccess(p))

SpecBlocked == InitBlocked /\ [][Next]_vars /\ OpenFairness

\* The call of p waits for the promise of initDB.
AwaitsOpen(p) == calls[p].pc \in {"open", "open2"}

\* C11: an open that the storage cannot serve, or that a connection of an
\* older version blocks, does not leave the promise of initDB pending: the
\* call that awaits it goes on or is rejected.
C11_OpenSettles ==
    \A p \in Procs : AwaitsOpen(p) ~> ~AwaitsOpen(p)

\* C12: in a read-write transaction, a request that fails by itself makes the
\* call end rejected, and whenever the call is rejected the three stores are
\* left as they were: a failed deleteFolder keeps the folder and clears no
\* folderId.
C12_FailedTransactionHasNoEffect ==
    [][\A p \in Procs :
          calls[p].pc = "txn" /\ Mode(calls[p]) = "readwrite" =>
             /\ (~NoRequestFails(p) /\ calls'[p] # calls[p]) => calls'[p].pc = "rejected"
             /\ calls'[p].pc = "rejected" => objectStores' = objectStores]_vars

\* C12 witness: on a library whose folder holds both Books, a createFolder
\* was rejected for its add and a deleteFolder for a fault of the storage in
\* its transaction; the folder is in place with its Books.
C12_Witness ==
    \E p, q \in Procs :
       /\ calls[p].op = "createFolder" /\ calls[p].pc = "rejected"
       /\ calls[p].error = "ConstraintError"
       /\ calls[q].op = "deleteFolder" /\ calls[q].pc = "rejected"
       /\ calls[q].error = "RequestError"
       /\ getAllFolders(objectStores) = {Folder(1, "Math")}
       /\ getAllBooks(objectStores) = {Book(id, "v1", FolderIdOf(1)) : id \in BookIds}

---------------------------------------------------------------------------
(* Concurrent calls against sequential ones *)

\* A library with two folders, a Book in the first and a Book in the root.
RaceLibrary ==
    [bookFiles |-> {StoredBookFile(id, BlobOf("v1")) : id \in BookIds},
     bookMetadata |-> {Book("b1", "v1", FolderIdOf(1)), Book("b2", "v1", Undefined)},
     folders |-> {Folder(t, "Math") : t \in Clock}]

\* The library of version 1 that holds no Book yet.
EmptyLibraryV1 == [n \in {STORE_FILES, STORE_META} |-> {}]

InitRace ==
    /\ \/ dbVersion = 1 /\ objectStores = EmptyLibraryV1 /\ metaIndexes = {}
       \/ dbVersion = DB_VERSION /\ objectStores = RaceLibrary /\ metaIndexes = {"folderId"}
    /\ oldConnection \in OtherTabs(dbVersion)
    /\ calls = [p \in Procs |-> IdleCall]
    /\ openQueue = <<>>
    /\ txnQueue = <<>>
    /\ upgradeCount = 0

SpecRace == InitRace /\ [][Next]_vars

\* The stores the first open of the page found or created: under InitRace
\* an upgrade has run exactly when the database was the empty one of
\* version 1.
StoresAtLoad ==
    IF upgradeCount = 0 THEN RaceLibrary ELSE [n \in StoreNames |-> {}]

\* The requests of call c when it runs from its first line to its last with
\* no other call in between: deleteFolder filters the books as they are.
RequestsAlone(c, stores) ==
    Requests(IF c.op = "deleteFolder"
             THEN [c EXCEPT !.books = booksInFolder(getAllBooks(stores), c.folderId)]
             ELSE c,
             stores)

\* The stores after the calls of the callers in order ran one after another,
\* each awaited and none failing (no outcome if one fails).
RECURSIVE RunInOrder(_, _)
RunInOrder(order, stores) ==
    IF order = <<>> THEN {stores}
    ELSE LET run == RunRequests(stores, RequestsAlone(calls[Head(order)], stores))
         IN IF run.failed THEN {} ELSE RunInOrder(Tail(order), run.stores)

Orders == {o \in [1..NumProcs -> Procs] : \A i, j \in 1..NumProcs : o[i] = o[j] => i = j}

\* C13: when the calls issued concurrently have all resolved, the stores are
\* what some sequential execution of the same calls leaves.
C13_Serializable ==
    (\A p \in Procs : calls[p].pc = "resolved") =>
        objectStores \in UNION {RunInOrder(o, StoresAtLoad) : o \in Orders}

---------------------------------------------------------------------------
(* Folders *)

\* C14: the id createFolder has assigned is the id of no Folder in the store
\* and of no other createFolder call, whatever the clock read.
C14_UniqueFolderId ==
    \A p \in Procs :
       calls[p].op = "createFolder" /\ calls[p].pc = "txn" =>
          /\ TheFolder(calls[p]).id \notin Ids(getAllFolders(objectStores))
          /\ \A q \in Procs \ {p} :
                calls[q].op = "createFolder" /\ calls[q].newFolder # {} =>
                   TheFolder(calls[q]).id # TheFolder(calls[p]).id

\* C15: when createFolder resolves, it resolves with newFolder, and the
\* record getAllFolders() holds under its id is that Folder, in id, name and
\* createdAt.
C15_CreateFolderReturnsStored ==
    [][\A p \in Procs :
          Resolves(p, "createFolder") =>
             /\ calls'[p].result = calls[p].newFolder
             /\ Get(getAllFolders(objectStores'), TheFolder(calls[p]).id) = calls'[p].result]_vars

\* C15 witness: a createFolder("Art") has resolved with the Folder of clock
\* value 2, which the folders store holds.
C15_Witness ==
    \E p \in Procs :
       /\ Resolved(p, "createFolder") /\ Alone(p)
       /\ calls[p].result = {Folder(2, "Art")}
       /\ Folder(2, "Art") \in getAllFolders(objectStores)

\* The library view: books.filter(b => b.folderId === (currentFolder?.id ||
\* undefined)), where currentFolder is null (the root) or one of the folders
\* listed.
displayedBooks(books, currentFolderId) == {b \in books : b.folderId = currentFolderId}

\* C16: a Book whose folderId is the id of no Folder is displayed in the
\* root listing.
C16_DanglingShownInRoot ==
    DOMAIN objectStores = StoreNames =>
       \A b \in getAllBooks(objectStores) :
          b.folderId \notin Ids(getAllFolders(objectStores)) =>
             b \in displayedBooks(getAllBooks(objectStores), Undefined)

---------------------------------------------------------------------------
(* Concurrent moves, failures of the open, ends of a transaction, reads *)

\* C17: of two updateBookFolder calls on a stored Book, the one whose
\* transaction commits second leaves the Book with its own target folderId
\* and every other field as it was; and no request of either fails by
\* itself.
C17_LastWriterWins ==
    /\ [][\A p, q \in Procs :
             /\ p # q
             /\ Resolved(q, "updateBookFolder")
             /\ Resolves(p, "updateBookFolder")
             /\ calls[p].bookId = calls[q].bookId
             /\ Get(getAllBooks(objectStores), calls[p].bookId) # {}
             =>
                LET b == CHOOSE x \in Get(getAllBooks(objectStores), calls[p].bookId) : TRUE
                IN Get(getAllBooks(objectStores'), calls[p].bookId)
                      = {[b EXCEPT !.folderId = calls[p].folderId]}]_vars
    /\ [](\A p \in Procs :
             calls[p].op = "updateBookFolder" /\ calls[p].pc = "txn" =>
                \A q \in Procs \ {p} : Resolved(q, "updateBookFolder") => NoRequestFails(p))

\* C17 witness: updateBookFolder("b1", "1") and updateBookFolder("b1", "2")
\* have both resolved and b1 is in folder "2".
C17_Witness ==
    /\ \A p \in Procs : Resolved(p, "updateBookFolder") /\ calls[p].bookId = "b1"
    /\ {calls[p].folderId : p \in Procs} = {FolderIdOf(1), FolderIdOf(2)}
    /\ Book("b1", "v1", FolderIdOf(2)) \in getAllBooks(objectStores)

\* The engine holds an open request or a transaction of p's call.
Queued(p) ==
    \/ \E i \in 1..Len(openQueue) : openQueue[i] = p
    \/ \E i \in 1..Len(txnQueue) : txnQueue[i] = p

\* C18: when the promise of initDB is rejected, the call that awaits it is
\* rejected with the error of the open request, no transaction is created,
\* no store changes, and no second open is requested.
C18_OpenFailurePropagates ==
    [][\A p \in Procs :
          AwaitsOpen(p) /\ calls'[p].pc = "rejected" =>
             /\ calls'[p].error = "UnknownError"
             /\ txnQueue' = txnQueue
             /\ objectStores' = objectStores /\ dbVersion' = dbVersion
             /\ ~Queued(p)']_vars

\* C18 witness: on a library of two Books, a getBookFile and a deleteFolder
\* were rejected with the error of the open; nothing is queued.
C18_Witness ==
    \E p, q \in Procs :
       /\ calls[p].op = "getBookFile" /\ calls[p].pc = "rejected"
       /\ calls[q].op = "deleteFolder" /\ calls[q].pc = "rejected"
       /\ calls[p].error = "UnknownError" /\ calls[q].error = "UnknownError"
       /\ openQueue = <<>> /\ txnQueue = <<>>
       /\ DOMAIN objectStores = StoreNames
       /\ Ids(getAllBooks(objectStores)) = BookIds

\* C19: however the read-write transaction of a call ends, the promise of
\* the call is resolved or rejected.
C19_EveryCallSettles ==
    [][\A p \in Procs :
          /\ calls[p].pc = "txn" /\ Mode(calls[p]) = "readwrite"
          /\ ~Queued(p)'
          => calls'[p].pc \in {"resolved", "rejected"}]_vars

\* C20: getBookFile changes no store, and for an id the binary store does
\* not hold it resolves with null.
C20_MissingFileIsNull ==
    [][\A p \in Procs :
          Resolves(p, "getBookFile") =>
             /\ objectStores' = objectStores
             /\ Get(objectStores[STORE_FILES], calls[p].bookId) = {} =>
                   calls'[p].result = {"null"}]_vars

\* C20 witness: a getBookFile of an id that is not stored has resolved with
\* null, on a library that holds the other Book.
C20_Witness ==
    \E p \in Procs :
       /\ Resolved(p, "getBookFile") /\ Alone(p)
       /\ calls[p].result = {"null"}
       /\ Ids(objectStores[STORE_FILES]) = BookIds \ {calls[p].bookId}

---------------------------------------------------------------------------
(* Retries, references, frames *)

\* The calls the retry rule is about.
RetryCalls ==
    {[IdleCall EXCEPT !.op = "updateBookFolder", !.bookId = id, !.folderId = f] :
        id \in BookIds, f \in FolderIdArgs}
    \cup {[IdleCall EXCEPT !.op = "deleteFolder", !.folderId = f] : f \in FolderIds}

\* Call c, run alone on stores, resolves and leaves them as they are.
NoOpAlone(c, stores) ==
    LET run == RunRequests(stores, RequestsAlone(c, stores))
    IN ~run.failed /\ run.stores = stores

\* C21: on the stores a resolved updateBookFolder or deleteFolder has left,
\* the same call run again resolves and changes nothing; and so it is for
\* each such call run twice in sequence on any stores reached.
C21_RetryIsSafe ==
    /\ \A p \in Procs :
          /\ Resolved(p, "updateBookFolder") \/ Resolved(p, "deleteFolder")
          /\ Alone(p)
          => NoOpAlone(calls[p], objectStores)
    /\ DOMAIN objectStores = StoreNames =>
          \A c \in RetryCalls :
             LET once == RunRequests(objectStores, RequestsAlone(c, objectStores))
             IN ~once.failed /\ NoOpAlone(c, once.stores)

\* C21 witness: a deleteFolder that moved one Book to the root has resolved
\* alone; the other folder and its Book are in place.
C21_Witness ==
    \E p \in Procs :
       /\ Resolved(p, "deleteFolder") /\ Alone(p)
       /\ calls[p].folderId = FolderIdOf(1)
       /\ calls[p].books = {Book("b1", "v1", FolderIdOf(1))}
       /\ getAllBooks(objectStores) = {Book("b1", "v1", Undefined), Book("b2", "v1", FolderIdOf(2))}
       /\ getAllFolders(objectStores) = {Folder(2, "Math")}

\* C22: after a saveBook or an updateBookFolder that ran alone and was
\* awaited, the folderId of every Book is undefined or the id of a Folder
\* in the store.
C22_FolderIdsReferToFolders ==
    \A p \in Procs :
       /\ Resolved(p, "saveBook") \/ Resolved(p, "updateBookFolder")
       /\ Alone(p)
       => \A b \in getAllBooks(objectStores) :
             b.folderId = Undefined \/ b.folderId \in Ids(getAllFolders(objectStores))

\* The metadata store after record b has replaced the record of its id.
Replaced(records, b) == {r \in records : r.id # b.id} \cup {b}

\* C23: an updateBookFolder that resolves on a stored Book changes the
\* folderId of that Book to the one given and nothing else: its other
\* fields, the other Books, the files and the folders are as before.
C23_ReassignChangesFolderIdOnly ==
    [][\A p \in Procs :
          Resolves(p, "updateBookFolder")
              /\ Get(objectStores[STORE_META], calls[p].bookId) # {}
          => LET old == CHOOSE b \in Get(objectStores[STORE_META], calls[p].bookId) : TRUE
                 new == [id |-> old.id, title |-> old.title,
                         uploadDate |-> old.uploadDate, fileSize |-> old.fileSize,
                         coverImage |-> old.coverImage, totalPages |-> old.totalPages,
                         folderId |-> calls[p].folderId]
             IN /\ objectStores'[STORE_META] = Replaced(objectStores[STORE_META], new)
                /\ objectStores'[STORE_FILES] = objectStores[STORE_FILES]
                /\ objectStores'[STORE_FOLDERS] = objectStores[STORE_FOLDERS]]_vars

\* C23 witness: a Book uploaded a second time has then been moved to folder
\* "1"; it has the fields of the second upload, and the other Book, both
\* files and the folder are in place.
C23_Witness ==
    \E p \in Procs : \E q \in Procs \ {p} :
       /\ Resolved(p, "updateBookFolder") /\ Resolved(q, "saveBook")
       /\ calls[p].bookId = "b1" /\ calls[p].folderId = FolderIdOf(1)
       /\ getAllBooks(objectStores) = {Book("b1", "v2", FolderIdOf(1)), Book("b2", "v1", Undefined)}
       /\ objectStores[STORE_FILES] = {StoredBookFile("b1", BlobOf("v2")), StoredBookFile("b2", BlobOf("v1"))}
       /\ getAllFolders(objectStores) = {Folder(1, "Math")}

\* C24: a deleteFolder that resolves with no other call made leaves every
\* Book of another folder or of the root, every field but folderId of the
\* Books of the folder, every file and every other Folder as they were.
C24_DeleteFolderFrame ==
    [][\A p \in Procs :
          Resolves(p, "deleteFolder") /\ Alone(p)
          => /\ \A b \in objectStores[STORE_META] :
                   IF b.folderId # calls[p].folderId
                   THEN Get(objectStores'[STORE_META], b.id) = {b}
                   ELSE \E n \in objectStores'[STORE_META] :
                           /\ Get(objectStores'[STORE_META], b.id) = {n}
                           /\ [n EXCEPT !.folderId = b.folderId] = b
             /\ Ids(objectStores'[STORE_META]) = Ids(objectStores[STORE_META])
             /\ objectStores'[STORE_FILES] = objectStores[STORE_FILES]
             /\ {f \in objectStores'[STORE_FOLDERS] : f.id # calls[p].folderId}
                   = {f \in objectStores[STORE_FOLDERS] : f.id # calls[p].folderId}]_vars

\* C24 witness: folder "2" has been deleted alone; its Book is in the root,
\* the Book of folder "1", folder "1" and both files are as they were.
C24_Witness ==
    \E p \in Procs :
       /\ Resolved(p, "deleteFolder") /\ Alone(p)
       /\ calls[p].folderId = FolderIdOf(2)
       /\ getAllBooks(objectStores) = {Book("b1", "v1", FolderIdOf(1)), Book("b2", "v1", Undefined)}
       /\ calls[p].books = {Book("b2", "v1", FolderIdOf(2))}
       /\ objectStores[STORE_FILES] = {StoredBookFile("b1", BlobOf("v1")), StoredBookFile("b2", BlobOf("v1"))}
       /\ getAllFolders(objectStores) = {Folder(1, "Math")}

\* C25: when an updateBookFolder and a saveBook of the same id have both
\* resolved and no other call was made, the stored record of the id is the
\* one of a sequential order: the Book saved (updateBookFolder first), or
\* the Book saved with the folderId of the updateBookFolder (saveBook first).
C25_ReassignIsIsolated ==
    \A p \in Procs : \A q \in Procs \ {p} :
       /\ Resolved(p, "updateBookFolder") /\ Resolved(q, "saveBook")
       /\ calls[p].bookId = TheBook(calls[q]).id
       /\ \A r \in Procs \ {p, q} : calls[r].pc = "idle"
       => \/ Get(objectStores[STORE_META], calls[p].bookId) = {TheBook(calls[q])}
          \/ Get(objectStores[STORE_META], calls[p].bookId)
                = {[TheBook(calls[q]) EXCEPT !.folderId = calls[p].folderId]}

\* C25 witness: the Book was in folder "1"; a second upload into the root
\* and a move to folder "2" have both resolved, and the stored record is the
\* second upload in folder "2".
C25_Witness ==
    \E p \in Procs : \E q \in Procs \ {p} :
       /\ Resolved(p, "updateBookFolder") /\ Resolved(q, "saveBook")
       /\ calls[p].bookId = "b1" /\ calls[p].folderId = FolderIdOf(2)
       /\ TheBook(calls[q]) = Book("b1", "v2", Undefined)
       /\ Get(objectStores[STORE_META], "b1") = {Book("b1", "v2", FolderIdOf(2))}
       /\ Ids(getAllFolders(objectStores)) = {FolderIdOf(1), FolderIdOf(2)}

---------------------------------------------------------------------------
(* The abstract library: the documents saved and not deleted, each with the
   folderId last written for it, and the folders created and not deleted. *)

\* The documents of the abstract library after call c.
AbstractDocuments(c, documents) ==
    CASE c.op = "saveBook" ->
           {d \in documents : d.id # TheBook(c).id} \cup {TheBook(c)}
      [] c.op = "updateBookFolder" ->
           {IF d.id = c.bookId THEN [d EXCEPT !.folderId = c.folderId] ELSE d :
               d \in documents}
      [] c.op = "deleteBook" -> {d \in documents : d.id # c.bookId}
      [] c.op = "deleteFolder" ->
           {IF d.folderId = c.folderId THEN [d EXCEPT !.folderId = Undefined] ELSE d :
               d \in documents}
      [] OTHER -> documents

\* The folders of the abstract library after call c.
AbstractFolders(c, folders) ==
    CASE c.op = "createFolder" -> folders \cup {TheFolder(c)}
      [] c.op = "deleteFolder" -> {f \in folders : f.id # c.folderId}
      [] OTHER -> folders

\* No call other than the one of p is between its first and its last line.
Awaited(p) ==
    \A q \in Procs \ {p} : calls[q].pc \in {"idle", "resolved", "rejected", "pending"}

\* C26: with each call awaited before the next is made, every call that
\* resolves takes the stored Books and Folders to the documents and folders
\* of the abstract library after the same call, and getAllBooks and
\* getAllFolders return them. (deleteFolder: with no other call made, as no
\* state tells whether a finished call ended before deleteFolder began.)
C26_RefinesAbstractLibrary ==
    [][\A p \in Procs :
          /\ \/ Awaited(p) /\ \E op \in {"saveBook", "updateBookFolder", "deleteBook",
                                          "createFolder", "getAllBooks", "getAllFolders"} :
                                 Resolves(p, op)
             \/ Alone(p) /\ Resolves(p, "deleteFolder")
          => /\ getAllBooks(objectStores')
                   = AbstractDocuments(calls[p], getAllBooks(objectStores))
             /\ getAllFolders(objectStores')
                   = AbstractFolders(calls[p], getAllFolders(objectStores))
             /\ calls[p].op = "getAllBooks"
                   => calls'[p].result = getAllBooks(objectStores)
             /\ calls[p].op = "getAllFolders"
                   => calls'[p].result = getAllFolders(objectStores)]_vars

\* C26 witness: after createFolder("Art") and then an upload into the new
\* folder, the stores hold the folder created and the document saved, next
\* to what the library held.
C26_Witness ==
    \E p \in Procs : \E q \in Procs \ {p} :
       /\ Resolved(p, "saveBook") /\ Resolved(q, "createFolder")
       /\ calls[q].result = {Folder(2, "Art")}
       /\ getAllFolders(objectStores) = {Folder(1, "Math"), Folder(2, "Art")}
       /\ getAllBooks(objectStores) = {Book("b1", "v2", FolderIdOf(2)), Book("b2", "v1", FolderIdOf(1))}

---------------------------------------------------------------------------
(* deleteFolder beside other calls *)

\* C27: the step in which deleteFolder resolves adds no record to the
\* metadata store: a Book that deleteBook has removed is not stored again.
C27_DeleteFolderAddsNoRecord ==
    [][\A p \in Procs :
          Resolves(p, "deleteFolder")
          => Ids(getAllBooks(objectStores')) \subseteq Ids(getAllBooks(objectStores))]_vars

\* C28: a Book that deleteFolder(F) has read in folder F and that an
\* updateBookFolder, resolved before the transaction of deleteFolder
\* commits, has moved to another folder of the store is still in that
\* folder when deleteFolder resolves.
C28_DeleteFolderKeepsMovedBooks ==
    [][\A p \in Procs : \A q \in Procs \ {p} :
          /\ Resolves(p, "deleteFolder")
          /\ Resolved(q, "updateBookFolder")
          /\ calls[q].bookId \in Ids(calls[p].books)
          /\ calls[q].folderId # calls[p].folderId
          /\ calls[q].folderId \in Ids(getAllFolders(objectStores))
          /\ \E b \in Get(getAllBooks(objectStores), calls[q].bookId) :
                b.folderId = calls[q].folderId
          => \E b \in Get(getAllBooks(objectStores'), calls[q].bookId) :
                b.folderId = calls[q].folderId]_vars

---------------------------------------------------------------------------
(* Overwriting *)

\* C29: however the transaction of createFolder ends, every Folder of the
\* store is in it afterwards as it was, and when the id made from the clock
\* is the id of a stored Folder, the transaction can only end with the call
\* rejected and the stores as they were.
C29_CreateFolderNeverOverwrites ==
    [][\A p \in Procs :
          calls[p].op = "createFolder" /\ calls[p].pc = "txn" /\ calls'[p] # calls[p]
          => /\ getAllFolders(objectStores) \subseteq getAllFolders(objectStores')
             /\ TheFolder(calls[p]).id \in Ids(getAllFolders(objectStores))
                => calls'[p].pc = "rejected" /\ objectStores' = objectStores]_vars

\* C29 witness: createFolder("Art") made the id of a stored Folder, was
\* rejected with ConstraintError, and the Folder has its name and createdAt.
C29_Witness ==
    \E p \in Procs :
       /\ calls[p].op = "createFolder" /\ calls[p].pc = "rejected"
       /\ calls[p].error = "ConstraintError"
       /\ Alone(p)
       /\ getAllFolders(objectStores) = {Folder(1, "Math"), Folder(2, "Math")}

\* C30: the step in which saveBook resolves puts the Book and the file given
\* in the place of the records of the same id, both at once, and changes no
\* record of another id and no Folder.
C30_SaveReplacesBothRecords ==
    [][\A p \in Procs :
          Resolves(p, "saveBook")
          => /\ objectStores'[STORE_META]
                   = Replaced(objectStores[STORE_META], TheBook(calls[p]))
             /\ objectStores'[STORE_FILES]
                   = Replaced(objectStores[STORE_FILES],
                              StoredBookFile(TheBook(calls[p]).id, calls[p].file))
             /\ objectStores'[STORE_FOLDERS] = objectStores[STORE_FOLDERS]]_vars

\* C30 witness: a stored Book has been uploaded again with other fields and
\* another file; both its records are the new ones and the records of the
\* other Book are the old ones.
C30_Witness ==
    \E p \in Procs :
       /\ Resolved(p, "saveBook") /\ Alone(p) /\ upgradeCount = 0
       /\ TheBook(calls[p]) = Book("b2", "v2", FolderIdOf(1))
       /\ getAllBooks(objectStores) = {Book("b1", "v1", Undefined), Book("b2", "v2", FolderIdOf(1))}
       /\ objectStores[STORE_FILES] = {StoredBookFile("b1", BlobOf("v1")), StoredBookFile("b2", BlobOf("v2"))}

====
